---- MODULE Spec2Model ----
(***************************************************************************)
(* A model of sdn_controller.py: the Topology class (adjacency map,        *)
(* Dijkstra shortest path, single-edge-exclusion second shortest path),    *)
(* the per-switch flow tables and the SDNController (intent registry,      *)
(* recompute/install policy, link-utilisation and load-balance counters).  *)
(*                                                                         *)
(* Python values are represented as follows.                               *)
(*   node name        an integer of Nodes; the integer order stands for    *)
(*                    the string order heapq uses to break distance ties   *)
(*   dict             a function whose DOMAIN is the set of keys           *)
(*   list             a sequence                                           *)
(*   None (a path)    the empty sequence NoPath: the code only ever tests  *)
(*                    paths for truthiness, and no path it builds is []    *)
(*   None (a node)    None                                                 *)
(*   float('inf')     Infinity                                             *)
(*   uncaught KeyError  err' = TRUE; the interpreter then leaves main(),   *)
(*                    so no operation is enabled once err holds            *)
(***************************************************************************)
EXTENDS Integers, Sequences, FiniteSets, TLC

\* ---------------------------------------------------------------- bounds
NumNodes == 3        \* node names the controller's callers use
NumTopoNodes == 4    \* node names the Topology's callers use
MaxWeight == 1       \* link weights are 0..MaxWeight
NumFlows == 2        \* flow ids
MaxPriority == 1     \* priorities are 0..MaxPriority
MaxOps == 4          \* controller calls in a run that starts at construction
MaxNetOps == 2       \* controller calls in a run that starts on a built network

\* Calls in a run on a built network that carries critical flows only.
MaxFailoverOps == 3

Nodes == 1..NumNodes
TopoNodes == 1..NumTopoNodes
Weights == 0..MaxWeight
FlowIds == 1..NumFlows
Priorities == 0..MaxPriority

None == -1
Infinity == 1000000
NoPath == << >>

VARIABLES
    adj,            \* Topology.adj: node -> (neighbour -> weight)
    switches,       \* SDNController.switches: node -> Switch.flow_table
    active_flows,   \* SDNController.active_flows, in dict insertion order
    lb_counters,    \* SDNController.lb_counters: (src,dst) -> count
    link_util,      \* SDNController.link_util: (u,v) -> count
    err,            \* an exception left the last call uncaught
    last,           \* the last call: its name and how it ended
    installs,       \* the _install calls of the last recompute_flows, in order
    ret,            \* what the last path query on the Topology was given and returned
    ops             \* controller calls left in this run

vars == << adj, switches, active_flows, lb_counters, link_util, err, last, installs,
           ret, ops >>

\* A dict without any key.
EmptyDict == [k \in {} |-> None]

\* d[k] = v on a dict.
DictSet(d, k, v) == [x \in (DOMAIN d) \cup {k} |-> IF x = k THEN v ELSE d[x]]

\* del d[k] / d.pop(k, None) on a dict.
DictDel(d, k) == [x \in (DOMAIN d) \ {k} |-> d[x]]

\* ------------------------------------------------------------- Topology
\* Topology.add_node
Topology_add_node(a, node) ==
    IF node \notin DOMAIN a THEN DictSet(a, node, EmptyDict) ELSE a

\* An add_link that sets the weight in the direction src -> dst only.
Topology_add_link_one_way(a, src, dst, weight) ==
    LET a1 == Topology_add_node(a, src)
        a2 == Topology_add_node(a1, dst)
    IN  DictSet(a2, src, DictSet(a2[src], dst, weight))

\* Topology.add_link
Topology_add_link(a, src, dst, weight) ==
    LET a1 == Topology_add_node(a, src)
        a2 == Topology_add_node(a1, dst)
        a3 == DictSet(a2, src, DictSet(a2[src], dst, weight))
    IN  DictSet(a3, dst, DictSet(a3[dst], src, weight))

\* Topology.remove_link
Topology_remove_link(a, src, dst) ==
    LET a1 == IF src \in DOMAIN a /\ dst \in DOMAIN a[src]
              THEN DictSet(a, src, DictDel(a[src], dst)) ELSE a
    IN  IF dst \in DOMAIN a1 /\ src \in DOMAIN a1[dst]
        THEN DictSet(a1, dst, DictDel(a1[dst], src)) ELSE a1

\* A heappop that hands out the greatest tuple, as list.pop() on a sorted
\* list would.
heappop_greatest(pq) ==
    CHOOSE t \in pq : \A s \in pq :
        t[1] > s[1] \/ (t[1] = s[1] /\ t[2] >= s[2])

\* heapq.heappop on a heap of (distance, node) tuples: the least tuple.
heappop(pq) ==
    CHOOSE t \in pq : \A s \in pq :
        t[1] < s[1] \/ (t[1] = s[1] /\ t[2] <= s[2])

\* The while loop of shortest_path. No tuple is pushed twice (a push needs a
\* strictly smaller distance), so the heap is a set. The for loop over
\* adj[u].items() touches each neighbour once and never dist[u] itself, so
\* its iterations are applied together.
RECURSIVE dijkstra(_, _, _, _, _)
dijkstra(a, dst, dist, prev, pq) ==
    IF pq = {} THEN [dist |-> dist, prev |-> prev]
    ELSE LET top == heappop(pq)
             d == top[1]
             u == top[2]
             rest == pq \ {top}
         IN  IF d > dist[u] THEN dijkstra(a, dst, dist, prev, rest)
             ELSE IF u = dst THEN [dist |-> dist, prev |-> prev]
             ELSE LET relaxed == {v \in DOMAIN a[u] : dist[u] + a[u][v] < dist[v]}
                      dist2 == [n \in DOMAIN dist |->
                                  IF n \in relaxed THEN dist[u] + a[u][n] ELSE dist[n]]
                      prev2 == [n \in DOMAIN prev |->
                                  IF n \in relaxed THEN u ELSE prev[n]]
                  IN  dijkstra(a, dst, dist2, prev2,
                               rest \cup {<< dist2[v], v >> : v \in relaxed})

\* The predecessor walk of shortest_path: dst first.
RECURSIVE walk_back(_, _)
walk_back(prev, u) ==
    IF u = None THEN << >> ELSE << u >> \o walk_back(prev, prev[u])

\* reversed(list)
Reversed(s) == [i \in 1..Len(s) |-> s[Len(s) + 1 - i]]

\* Topology.shortest_path
shortest_path(a, src, dst) ==
    IF src \notin DOMAIN a \/ dst \notin DOMAIN a THEN NoPath
    ELSE LET dist0 == [n \in DOMAIN a |-> IF n = src THEN 0 ELSE Infinity]
             prev0 == [n \in DOMAIN a |-> None]
             r == dijkstra(a, dst, dist0, prev0, {<< 0, src >>})
         IN  IF r.dist[dst] = Infinity THEN NoPath
             ELSE Reversed(walk_back(r.prev, dst))

\* A cost that counts hops instead of adding weights.
path_cost_hops(a, p, j) == Len(p) - j

\* sum(self.adj.get(alt[j], {}).get(alt[j+1], 0) for j in range(len(alt)-1))
RECURSIVE path_cost(_, _, _)
path_cost(a, p, j) ==
    IF j >= Len(p) THEN 0
    ELSE (IF p[j] \in DOMAIN a /\ p[j+1] \in DOMAIN a[p[j]] THEN a[p[j]][p[j+1]] ELSE 0)
         + path_cost(a, p, j + 1)

\* A loop that restores each link with self.add_link(u, v), add_link's
\* default weight, instead of the weight it had.
RECURSIVE second_loop_default_weight(_, _, _, _, _, _, _)
second_loop_default_weight(a, src, dst, primary_path, i, second, best_cost) ==
    IF i > Len(primary_path) - 1 THEN [adj |-> a, second |-> second]
    ELSE LET u == primary_path[i]
             v == primary_path[i+1]
             a1 == Topology_remove_link(a, u, v)
             alt == shortest_path(a1, src, dst)
             take == alt # NoPath /\ alt # primary_path
                     /\ path_cost(a1, alt, 1) < best_cost
             a2 == Topology_add_link(a1, u, v, 1)
         IN  second_loop_default_weight(a2, src, dst, primary_path, i + 1,
                         IF take THEN alt ELSE second,
                         IF take THEN path_cost(a1, alt, 1) ELSE best_cost)

\* The for loop of second_shortest_path from index i on (i counts from 1).
\* Returns the adjacency map after the loop and the path it chose.
RECURSIVE second_loop(_, _, _, _, _, _, _)
second_loop(a, src, dst, primary_path, i, second, best_cost) ==
    IF i > Len(primary_path) - 1 THEN [adj |-> a, second |-> second]
    ELSE LET u == primary_path[i]
             v == primary_path[i+1]
             w == IF v \in DOMAIN a[u] THEN a[u][v] ELSE None
             a1 == Topology_remove_link(a, u, v)
             alt == shortest_path(a1, src, dst)
             take == alt # NoPath /\ alt # primary_path
                     /\ path_cost(a1, alt, 1) < best_cost
             a2 == Topology_add_link(a1, u, v, w)
         IN  second_loop(a2, src, dst, primary_path, i + 1,
                         IF take THEN alt ELSE second,
                         IF take THEN path_cost(a1, alt, 1) ELSE best_cost)

\* Topology.second_shortest_path
second_shortest_path(a, src, dst, primary_path) ==
    second_loop(a, src, dst, primary_path, 1, NoPath, Infinity)

\* ---------------------------------------------------- Switch, FlowEntry
\* FlowEntry.__init__
FlowEntry(dst, next_hop, priority) ==
    [dst |-> dst, next_hop |-> next_hop, priority |-> priority]

\* An install_flow that lets an entry of higher priority stand.
install_flow_by_priority(flow_table, fe) ==
    Append(SelectSeq(flow_table,
                     LAMBDA e : e.dst # fe.dst \/ e.priority > fe.priority), fe)

\* Switch.install_flow on a flow_table
install_flow(flow_table, fe) ==
    Append(SelectSeq(flow_table, LAMBDA e : e.dst # fe.dst), fe)

\* -------------------------------------------------------- SDNController
\* The part of the controller recompute_flows works on.
\*   st.switches, st.link_util, st.lb_counters   the fields of that name
\*   st.err        a KeyError was raised
\*   st.installs   the decisions _install has taken so far

\* An _install loop that counts with link_util.get((u, v), 0) + 1, so that a
\* pair without a counter raises nothing.
RECURSIVE install_hops_tolerant(_, _, _, _, _)
install_hops_tolerant(st, path, i, dst, priority) ==
    IF i > Len(path) - 1 THEN st
    ELSE LET u == path[i]
             v == path[i+1]
         IN  IF u \notin DOMAIN st.switches THEN [st EXCEPT !.err = TRUE]
             ELSE LET sw == DictSet(st.switches, u,
                               install_flow(st.switches[u], FlowEntry(dst, v, priority)))
                      cnt == IF << u, v >> \in DOMAIN st.link_util
                             THEN st.link_util[<< u, v >>] ELSE 0
                  IN  install_hops_tolerant(
                          [st EXCEPT !.switches = sw,
                                     !.link_util = DictSet(st.link_util, << u, v >>, cnt + 1)],
                          path, i + 1, dst, priority)

\* An _install that programs the first switch of the path only.
install_hops_ingress_only(st, path, i, dst, priority) ==
    IF i > Len(path) - 1 \/ i > 1 THEN st
    ELSE LET u == path[i]
             v == path[i+1]
         IN  IF u \notin DOMAIN st.switches THEN [st EXCEPT !.err = TRUE]
             ELSE LET sw == DictSet(st.switches, u,
                               install_flow(st.switches[u], FlowEntry(dst, v, priority)))
                  IN  IF << u, v >> \notin DOMAIN st.link_util
                      THEN [st EXCEPT !.switches = sw, !.err = TRUE]
                      ELSE [st EXCEPT !.switches = sw,
                                      !.link_util = DictSet(st.link_util, << u, v >>,
                                                            st.link_util[<< u, v >>] + 1)]

\* The for loop of _install from hop i on (i counts from 1). switches[u]
\* raises KeyError for a node without a Switch before anything is installed;
\* link_util[(u, v)] += 1 raises KeyError for a pair without a counter after
\* the entry was installed.
RECURSIVE install_hops(_, _, _, _, _)
install_hops(st, path, i, dst, priority) ==
    IF i > Len(path) - 1 THEN st
    ELSE LET u == path[i]
             v == path[i+1]
         IN  IF u \notin DOMAIN st.switches THEN [st EXCEPT !.err = TRUE]
             ELSE LET sw == DictSet(st.switches, u,
                               install_flow(st.switches[u], FlowEntry(dst, v, priority)))
                  IN  IF << u, v >> \notin DOMAIN st.link_util
                      THEN [st EXCEPT !.switches = sw, !.err = TRUE]
                      ELSE install_hops(
                               [st EXCEPT !.switches = sw,
                                          !.link_util = DictSet(st.link_util, << u, v >>,
                                                                st.link_util[<< u, v >>] + 1)],
                               path, i + 1, dst, priority)

\* A path choice that keeps one counter per flow id instead of one per
\* (src, dst).
choose_path_per_flow(a, lb, m) ==
    LET key == << m.fid, m.fid >>
        cnt == IF key \in DOMAIN lb THEN lb[key] ELSE 0
    IN  IF m.critical /\ shortest_path(a, m.src, m.dst) = NoPath /\ m.backup # NoPath
        THEN [path |-> m.backup, lb |-> lb]
        ELSE IF ~m.critical /\ m.backup # NoPath
        THEN [path |-> IF cnt % 2 = 0 THEN m.primary ELSE m.backup,
              lb |-> DictSet(lb, key, cnt + 1)]
        ELSE [path |-> m.primary, lb |-> lb]

\* A path choice that advances the counter for every non-critical intent,
\* with or without a backup.
choose_path_counts_every_flow(a, lb, m) ==
    LET key == << m.src, m.dst >>
        cnt == IF key \in DOMAIN lb THEN lb[key] ELSE 0
    IN  IF m.critical /\ shortest_path(a, m.src, m.dst) = NoPath /\ m.backup # NoPath
        THEN [path |-> m.backup, lb |-> lb]
        ELSE IF ~m.critical
        THEN [path |-> IF cnt % 2 = 0 \/ m.backup = NoPath THEN m.primary ELSE m.backup,
              lb |-> DictSet(lb, key, cnt + 1)]
        ELSE [path |-> m.primary, lb |-> lb]

\* A path choice whose critical branch looks at the stored primary instead
\* of probing src-dst reachability: it takes the backup when a hop of the
\* primary is no longer a link.
choose_path_validates_primary(a, lb, m) ==
    LET key == << m.src, m.dst >>
        cnt == IF key \in DOMAIN lb THEN lb[key] ELSE 0
        broken == \E i \in 1..(Len(m.primary) - 1) :
                      \/ m.primary[i] \notin DOMAIN a
                      \/ m.primary[i+1] \notin DOMAIN a[m.primary[i]]
    IN  IF m.critical /\ broken /\ m.backup # NoPath
        THEN [path |-> m.backup, lb |-> lb]
        ELSE IF ~m.critical /\ m.backup # NoPath
        THEN [path |-> IF cnt % 2 = 0 THEN m.primary ELSE m.backup,
              lb |-> DictSet(lb, key, cnt + 1)]
        ELSE [path |-> m.primary, lb |-> lb]

\* The path choice of _install: the path and the counters afterwards.
choose_path(a, lb, m) ==
    LET key == << m.src, m.dst >>
        cnt == IF key \in DOMAIN lb THEN lb[key] ELSE 0
    IN  IF m.critical /\ shortest_path(a, m.src, m.dst) = NoPath /\ m.backup # NoPath
        THEN [path |-> m.backup, lb |-> lb]
        ELSE IF ~m.critical /\ m.backup # NoPath
        THEN [path |-> IF cnt % 2 = 0 THEN m.primary ELSE m.backup,
              lb |-> DictSet(lb, key, cnt + 1)]
        ELSE [path |-> m.primary, lb |-> lb]

\* SDNController._install
install(st, a, m) ==
    LET c == choose_path(a, st.lb_counters, m)
    IN  install_hops([st EXCEPT !.lb_counters = c.lb,
                                !.installs = Append(st.installs,
                                    [fid |-> m.fid, path |-> c.path])],
                     c.path, 1, m.dst, m.priority)

\* A sort by ascending priority: sorted(items, key=lambda x: x[1]['priority']).
RECURSIVE sorted_flows_ascending(_)
sorted_flows_ascending(flows) ==
    IF flows = << >> THEN << >>
    ELSE LET low == CHOOSE i \in 1..Len(flows) :
                        /\ \A j \in 1..Len(flows) : flows[j].priority >= flows[i].priority
                        /\ \A j \in 1..(i-1) : flows[j].priority > flows[i].priority
         IN  << flows[low] >> \o
             sorted_flows_ascending(SubSeq(flows, 1, low - 1) \o
                                    SubSeq(flows, low + 1, Len(flows)))

\* sorted(items, key=lambda x: -x[1]['priority']): stable, so intents of one
\* priority keep their dict insertion order.
RECURSIVE sorted_flows(_)
sorted_flows(flows) ==
    IF flows = << >> THEN << >>
    ELSE LET top == CHOOSE i \in 1..Len(flows) :
                        /\ \A j \in 1..Len(flows) : flows[j].priority <= flows[i].priority
                        /\ \A j \in 1..(i-1) : flows[j].priority < flows[i].priority
         IN  << flows[top] >> \o
             sorted_flows(SubSeq(flows, 1, top - 1) \o SubSeq(flows, top + 1, Len(flows)))

\* The last for loop of recompute_flows; an exception ends it.
RECURSIVE install_all(_, _, _, _)
install_all(st, a, order, i) ==
    IF i > Len(order) \/ st.err THEN st
    ELSE install_all(install(st, a, order[i]), a, order, i + 1)

\* A recompute_flows that does not zero the utilisation counters.
recompute_flows_keeps_util(sw, util, lb, a, flows) ==
    install_all([switches |-> [n \in DOMAIN sw |-> << >>],
                 link_util |-> util,
                 lb_counters |-> lb,
                 err |-> FALSE,
                 installs |-> << >>],
                a, sorted_flows(flows), 1)

\* SDNController.recompute_flows
recompute_flows(sw, util, lb, a, flows) ==
    install_all([switches |-> [n \in DOMAIN sw |-> << >>],
                 link_util |-> [k \in DOMAIN util |-> 0],
                 lb_counters |-> lb,
                 err |-> FALSE,
                 installs |-> << >>],
                a, sorted_flows(flows), 1)

\* A registry kept as a list of records: every injection is appended, a known
\* id included.
store_flow_appends(flows, m) == Append(flows, m)

\* self.active_flows[fid] = {...}: a new key goes last, a known key keeps its place.
store_flow(flows, m) ==
    IF \E i \in 1..Len(flows) : flows[i].fid = m.fid
    THEN [i \in 1..Len(flows) |-> IF flows[i].fid = m.fid THEN m ELSE flows[i]]
    ELSE Append(flows, m)

\* What `last` holds for a call: its name, the flow id it was given (None when
\* it takes none) and how it ended: "ok", "no path" (inject_flow found no
\* primary path) or "KeyError".
Call(op, fid, out) == [op |-> op, fid |-> fid, out |-> out]

\* What `ret` holds before any path query.
NoQuery == [src |-> None, dst |-> None, primary |-> NoPath, second |-> NoPath]

\* How a call that ran recompute_flows ended.
Outcome(st) == IF st.err THEN "KeyError" ELSE "ok"

\* SDNController.__init__
Init ==
    /\ adj = EmptyDict
    /\ switches = EmptyDict
    /\ active_flows = << >>
    /\ lb_counters = EmptyDict
    /\ link_util = EmptyDict
    /\ err = FALSE
    /\ last = Call("__init__", None, "ok")
    /\ installs = << >>
    /\ ret = NoQuery
    /\ ops = MaxOps

\* main() reads the next command: only while no exception has ended it.
Running == ~err /\ ops > 0

\* The state after a call that ran recompute_flows to its end or to an exception.
Recomputed(st) ==
    /\ switches' = st.switches
    /\ link_util' = st.link_util
    /\ lb_counters' = st.lb_counters
    /\ err' = st.err
    /\ installs' = st.installs

\* SDNController.add_node
add_node(node) ==
    /\ Running
    /\ adj' = Topology_add_node(adj, node)
    /\ switches' = DictSet(switches, node, << >>)
    /\ last' = Call("add_node", None, "ok")
    /\ ops' = ops - 1
    /\ UNCHANGED << active_flows, lb_counters, link_util, err, installs, ret >>

\* SDNController.add_link
add_link(src, dst, weight) ==
    /\ Running
    /\ adj' = Topology_add_link(adj, src, dst, weight)
    /\ link_util' = DictSet(DictSet(link_util, << src, dst >>, 0), << dst, src >>, 0)
    /\ last' = Call("add_link", None, "ok")
    /\ ops' = ops - 1
    /\ UNCHANGED << switches, active_flows, lb_counters, err, installs, ret >>

\* A remove_link that routes every intent that still has a path anew on
\* the topology without the link, before it recomputes.
remove_link_reroutes(src, dst) ==
    /\ Running
    /\ LET a == Topology_remove_link(adj, src, dst)
           util == DictDel(DictDel(link_util, << src, dst >>), << dst, src >>)
           flows == [ i \in 1..Len(active_flows) |->
                        LET m == active_flows[i]
                            p == shortest_path(a, m.src, m.dst)
                        IN  IF p = NoPath THEN m
                            ELSE [m EXCEPT !.primary = p,
                                           !.backup = second_shortest_path(
                                                          a, m.src, m.dst, p).second] ]
       IN  /\ adj' = a
           /\ active_flows' = flows
           /\ Recomputed(recompute_flows(switches, util, lb_counters, a, flows))
           /\ last' = Call("remove_link", None,
                  Outcome(recompute_flows(switches, util, lb_counters, a, flows)))
    /\ ops' = ops - 1
    /\ UNCHANGED ret

\* SDNController.remove_link
remove_link(src, dst) ==
    /\ Running
    /\ LET a == Topology_remove_link(adj, src, dst)
           util == DictDel(DictDel(link_util, << src, dst >>), << dst, src >>)
       IN  /\ adj' = a
           /\ Recomputed(recompute_flows(switches, util, lb_counters, a, active_flows))
           /\ last' = Call("remove_link", None,
                  Outcome(recompute_flows(switches, util, lb_counters, a, active_flows)))
    /\ ops' = ops - 1
    /\ UNCHANGED << active_flows, ret >>

\* An inject_flow without the early return: it stores the intent and
\* recomputes whether or not a primary path was found.
inject_flow_no_return(fid, src, dst, priority, critical) ==
    /\ Running
    /\ LET primary == shortest_path(adj, src, dst)
           m == [fid |-> fid, src |-> src, dst |-> dst,
                 priority |-> priority, critical |-> critical,
                 primary |-> primary, backup |-> NoPath]
           flows == store_flow(active_flows, m)
           st == recompute_flows(switches, link_util, lb_counters, adj, flows)
       IN  /\ active_flows' = flows
           /\ Recomputed(st)
           /\ last' = Call("inject_flow", fid,
                           IF primary = NoPath THEN "no path" ELSE Outcome(st))
    /\ ops' = ops - 1
    /\ UNCHANGED << adj, ret >>

\* SDNController.inject_flow
inject_flow(fid, src, dst, priority, critical) ==
    /\ Running
    /\ LET primary == shortest_path(adj, src, dst)
       IN  IF primary = NoPath
           THEN /\ last' = Call("inject_flow", fid, "no path")
                /\ UNCHANGED << adj, switches, active_flows, lb_counters, link_util,
                                err, installs >>
           ELSE LET s == second_shortest_path(adj, src, dst, primary)
                    m == [fid |-> fid, src |-> src, dst |-> dst,
                          priority |-> priority, critical |-> critical,
                          primary |-> primary, backup |-> s.second]
                    flows == store_flow(active_flows, m)
                IN  /\ adj' = s.adj
                    /\ active_flows' = flows
                    /\ Recomputed(recompute_flows(switches, link_util, lb_counters,
                                                  s.adj, flows))
                    /\ last' = Call("inject_flow", fid,
                           Outcome(recompute_flows(switches, link_util, lb_counters,
                                                   s.adj, flows)))
    /\ ops' = ops - 1
    /\ UNCHANGED ret

\* SDNController.recompute_flows, called on its own
recompute ==
    /\ Running
    /\ Recomputed(recompute_flows(switches, link_util, lb_counters, adj, active_flows))
    /\ last' = Call("recompute_flows", None,
           Outcome(recompute_flows(switches, link_util, lb_counters, adj, active_flows)))
    /\ ops' = ops - 1
    /\ UNCHANGED << adj, active_flows, ret >>

Next ==
    \/ \E node \in Nodes : add_node(node)
    \/ \E src, dst \in Nodes, weight \in Weights : src # dst /\ add_link(src, dst, weight)
    \/ \E src, dst \in Nodes : remove_link(src, dst)
    \/ \E fid \in FlowIds, src, dst \in Nodes, priority \in Priorities,
          critical \in BOOLEAN : inject_flow(fid, src, dst, priority, critical)
    \/ recompute

Spec == Init /\ [][Next]_vars

\* The node pairs a link can join, each once.
Pairs == { p \in Nodes \X Nodes : p[1] < p[2] }

\* The state after add_node(n) for every n of Nodes and then
\* add_link(u, v, w[u, v]) for every pair w gives a weight (None: no link).
Built(w) ==
    /\ adj = [u \in Nodes |->
                [v \in { x \in Nodes : /\ x # u
                                       /\ w[IF u < x THEN << u, x >> ELSE << x, u >>] # None }
                   |-> w[IF u < v THEN << u, v >> ELSE << v, u >>]]]
    /\ switches = [n \in Nodes |-> << >>]
    /\ active_flows = << >>
    /\ lb_counters = EmptyDict
    /\ link_util = [k \in { p \in Nodes \X Nodes :
                              /\ p[1] # p[2]
                              /\ w[IF p[1] < p[2] THEN p ELSE << p[2], p[1] >>] # None }
                      |-> 0]
    /\ err = FALSE
    /\ last = Call(IF \E p \in Pairs : w[p] # None THEN "add_link" ELSE "add_node",
                   None, "ok")
    /\ installs = << >>
    /\ ret = NoQuery

\* A run that starts on a built network: any topology over Nodes, a Switch
\* on every node, no intent yet.
InitNet ==
    /\ \E w \in [Pairs -> Weights \cup {None}] : Built(w)
    /\ ops = MaxNetOps

SpecNet == InitNet /\ [][Next]_vars

\* ------------------------------------------- critical flows and failures
\* A run on a built network that carries critical flows of the default
\* priority and loses links: the inject_flow command with critical true and
\* the simulate_failure command of main().
InitFailover ==
    /\ \E w \in [Pairs -> Weights \cup {None}] : Built(w)
    /\ ops = MaxFailoverOps

NextFailover ==
    \/ \E fid \in FlowIds, src, dst \in Nodes : inject_flow(fid, src, dst, 0, TRUE)
    \/ \E src, dst \in Nodes : remove_link(src, dst)

SpecFailover == InitFailover /\ [][NextFailover]_vars

\* ------------------------------------------- the Topology on its own
\* The calls of a Topology object that no controller wraps. The controller's
\* fields stay as constructed.
Controller == << switches, active_flows, lb_counters, link_util, err, installs, ops >>

\* Topology.add_node
t_add_node(node) ==
    /\ adj' = Topology_add_node(adj, node)
    /\ last' = Call("Topology.add_node", None, "ok")
    /\ ret' = NoQuery
    /\ UNCHANGED Controller

\* Topology.add_link
t_add_link(src, dst, weight) ==
    /\ adj' = Topology_add_link(adj, src, dst, weight)
    /\ last' = Call("Topology.add_link", None, "ok")
    /\ ret' = NoQuery
    /\ UNCHANGED Controller

\* Topology.remove_link
t_remove_link(src, dst) ==
    /\ adj' = Topology_remove_link(adj, src, dst)
    /\ last' = Call("Topology.remove_link", None, "ok")
    /\ ret' = NoQuery
    /\ UNCHANGED Controller

\* Topology.shortest_path
t_shortest_path(src, dst) ==
    /\ ret' = [src |-> src, dst |-> dst,
               primary |-> shortest_path(adj, src, dst), second |-> NoPath]
    /\ last' = Call("Topology.shortest_path", None, "ok")
    /\ UNCHANGED << adj, Controller >>

\* Topology.second_shortest_path, given the primary path shortest_path
\* returns, as its one caller inject_flow gives it.
t_second_shortest_path(src, dst) ==
    /\ shortest_path(adj, src, dst) # NoPath
    /\ LET primary == shortest_path(adj, src, dst)
           s == second_shortest_path(adj, src, dst, primary)
       IN  /\ adj' = s.adj
           /\ ret' = [src |-> src, dst |-> dst, primary |-> primary, second |-> s.second]
    /\ last' = Call("Topology.second_shortest_path", None, "ok")
    /\ UNCHANGED Controller

NextTopology ==
    \/ \E node \in TopoNodes : t_add_node(node)
    \/ \E src, dst \in TopoNodes, weight \in Weights :
          src # dst /\ t_add_link(src, dst, weight)
    \/ \E src, dst \in TopoNodes : t_remove_link(src, dst)
    \/ \E src, dst \in TopoNodes : t_shortest_path(src, dst)
    \/ \E src, dst \in TopoNodes : t_second_shortest_path(src, dst)

SpecTopology == Init /\ [][NextTopology]_vars

\* ------------------------------------------------- reference notions
\* u and v are joined by a link of a.
Linked(a, u, v) == u \in DOMAIN a /\ v \in DOMAIN a[u]

\* p is a node sequence from src to dst along links of a.
IsPath(a, p, src, dst) ==
    /\ Len(p) >= 1
    /\ p[1] = src
    /\ p[Len(p)] = dst
    /\ \A i \in 1..Len(p) : p[i] \in DOMAIN a
    /\ \A i \in 1..(Len(p) - 1) : Linked(a, p[i], p[i+1])

\* The sum of the link weights along a path of a.
RECURSIVE TotalWeight(_, _)
TotalWeight(a, p) ==
    IF Len(p) <= 1 THEN 0
    ELSE a[p[1]][p[2]] + TotalWeight(a, Tail(p))

\* The paths from src to dst that visit no node twice. With weights >= 0 a
\* lightest path is among them.
SimplePaths(a, src, dst) ==
    { p \in UNION { [1..n -> DOMAIN a] : n \in 1..Cardinality(DOMAIN a) } :
        /\ IsPath(a, p, src, dst)
        /\ \A i, j \in 1..Len(p) : p[i] = p[j] => i = j }

\* The links (u,v) a path runs over, in its direction.
Hops(p) == { << p[i], p[i+1] >> : i \in 1..(Len(p) - 1) }

\* The intent stored under fid in a registry that holds one.
Intent(flows, fid) == flows[CHOOSE i \in 1..Len(flows) : flows[i].fid = fid]

\* The install decision load-balances m: m is not critical and has a backup.
LoadBalanced(m) == ~m.critical /\ m.backup # NoPath

\* d.get(k, 0)
Get0(d, k) == IF k \in DOMAIN d THEN d[k] ELSE 0

\* recompute_flows has just run to its end: the last call was one that ends
\* with it, and no exception left it.
JustRecomputed ==
    /\ last.op \in {"inject_flow", "remove_link", "recompute_flows"}
    /\ last.out = "ok"

\* b is a neighbour of a iff a is one of b, with one weight both ways.
Symmetric(a) ==
    \A u \in DOMAIN a : \A v \in DOMAIN a[u] :
        v \in DOMAIN a /\ u \in DOMAIN a[v] /\ a[v][u] = a[u][v]

\* Switch u holds an entry for destination d with next hop v.
HasEntry(sw, u, d, v) ==
    /\ u \in DOMAIN sw
    /\ \E k \in 1..Len(sw[u]) : sw[u][k].dst = d /\ sw[u][k].next_hop = v

\* ------------------------------------------------------------- claims
\* C1. Every add_node, add_link, remove_link and inject_flow call runs to
\* completion without an unhandled error, whatever calls came before it.
C1_NoUnhandledError == ~err

\* C2. Critical failover: when remove_link removes a link of the stored
\* primary path of a critical intent that has a backup, the recompute it
\* triggers installs every hop (u,v) of the backup: u's table holds an entry
\* for the intent's destination with next hop v.
C2_CriticalFailover ==
    [][\A src, dst \in Nodes : \A i \in 1..Len(active_flows) :
          LET m == active_flows[i]
          IN  ( /\ m.critical
                /\ m.backup # NoPath
                /\ (<< src, dst >> \in Hops(m.primary) \/ << dst, src >> \in Hops(m.primary))
                /\ remove_link(src, dst) )
              => \A h \in Hops(m.backup) : HasEntry(switches', h[1], m.dst, h[2])]_vars

\* C3 as stated. Idempotent recompute: recompute_flows called when
\* recompute_flows has just run (on its own, or as the last statement of
\* inject_flow or remove_link), with no change in between, leaves every flow
\* table and every utilisation counter as the first run left them.
C3_IdempotentRecompute ==
    [][(JustRecomputed /\ recompute) =>
          switches' = switches /\ link_util' = link_util]_vars

\* C3 as amended. The same, for registries in which no intent is
\* load-balanced (every intent is critical or has no backup); the second
\* run then also ends without an error.
C3_IdempotentWithoutLoadBalancing ==
    [][( /\ JustRecomputed
         /\ recompute
         /\ \A i \in 1..Len(active_flows) : ~LoadBalanced(active_flows[i]) )
       => switches' = switches /\ link_util' = link_util /\ ~err']_vars

\* C3 witness: recompute_flows has run a second time on a registry without a
\* load-balanced intent, and flow entries are installed.
C3_Witness ==
    /\ last.op = "recompute_flows"
    /\ last.out = "ok"
    /\ ops = MaxNetOps - 2
    /\ active_flows # << >>
    /\ \A i \in 1..Len(active_flows) : ~LoadBalanced(active_flows[i])
    /\ \E u \in DOMAIN switches : switches[u] # << >>
    /\ \E k \in DOMAIN link_util : link_util[k] > 0

\* C4. No-path injection: an inject_flow for which shortest_path(src, dst)
\* finds no path leaves the registry (the intent stored under fid included),
\* every flow table, both counter maps and the topology unchanged, and runs
\* no recompute.
C4_NoPathInjection ==
    [][last'.op = "inject_flow" =>
          \A src, dst \in Nodes :
              shortest_path(adj, src, dst) = NoPath =>
                  \A fid \in FlowIds, priority \in Priorities, critical \in BOOLEAN :
                      inject_flow(fid, src, dst, priority, critical)
                      => /\ UNCHANGED << adj, switches, active_flows, lb_counters,
                                         link_util, err, installs >>
                         /\ last'.out = "no path"]_vars

\* C4 witness: an inject_flow has found no path for a flow id under which an
\* earlier intent is stored and installed.
C4_Witness ==
    /\ last.op = "inject_flow"
    /\ last.out = "no path"
    /\ \E i \in 1..Len(active_flows) : active_flows[i].fid = last.fid
    /\ \E u \in DOMAIN switches : switches[u] # << >>

\* C5. Topology symmetry: in every state b is a neighbour of a iff a is a
\* neighbour of b, with the same weight both ways; right after
\* add_link(a,b,w) both directions have weight w; right after
\* remove_link(a,b) neither direction exists and no node is lost. This holds
\* after inject_flow too, whose backup search removes and restores links.
C5_TopologySymmetry ==
    [][/\ Symmetric(adj) /\ Symmetric(adj')
       /\ last'.op = "add_link" =>
             \A src, dst \in Nodes, weight \in Weights :
                 add_link(src, dst, weight) =>
                     /\ Linked(adj', src, dst) /\ adj'[src][dst] = weight
                     /\ Linked(adj', dst, src) /\ adj'[dst][src] = weight
       /\ last'.op = "remove_link" =>
             \A src, dst \in Nodes :
                 remove_link(src, dst) =>
                     /\ ~Linked(adj', src, dst)
                     /\ ~Linked(adj', dst, src)
                     /\ DOMAIN adj' = DOMAIN adj]_vars

\* C5 witness: an inject_flow has stored an intent with a backup, so its
\* search removed and restored links, among them one of a weight other than
\* add_link's default.
C5_Witness ==
    /\ last.op = "inject_flow"
    /\ \E i \in 1..Len(active_flows) :
          /\ active_flows[i].fid = last.fid
          /\ active_flows[i].backup # NoPath
          /\ \E h \in Hops(active_flows[i].primary) :
                Linked(adj, h[1], h[2]) /\ adj[h[1]][h[2]] # 1

\* C6. Shortest-path correctness: shortest_path returns no path iff src or
\* dst is not a node or dst is unreachable from src; otherwise it returns a
\* node sequence from src to dst along existing links whose total weight is
\* the minimum over all src-to-dst paths.
C6_ShortestPathCorrect ==
    last.op = "Topology.shortest_path" =>
        LET p == ret.primary
            all == SimplePaths(adj, ret.src, ret.dst)
        IN  /\ p = NoPath <=> \/ ret.src \notin DOMAIN adj
                              \/ ret.dst \notin DOMAIN adj
                              \/ all = {}
            /\ p # NoPath =>
                  /\ IsPath(adj, p, ret.src, ret.dst)
                  /\ \A q \in all : TotalWeight(adj, p) <= TotalWeight(adj, q)

\* C6 witness: on the diamond 1-2, 2-4, 1-3, 3-4 (all of weight 1)
\* shortest_path(1, 4) has returned a 3-node path of weight 2.
C6_Witness ==
    /\ last.op = "Topology.shortest_path"
    /\ DOMAIN adj = {1, 2, 3, 4}
    /\ \A u, v \in DOMAIN adj :
          Linked(adj, u, v) <=> << u, v >> \in {<< 1, 2 >>, << 2, 1 >>, << 2, 4 >>, << 4, 2 >>,
                                               << 1, 3 >>, << 3, 1 >>, << 3, 4 >>, << 4, 3 >>}
    /\ \A u \in DOMAIN adj : \A v \in DOMAIN adj[u] : adj[u][v] = 1
    /\ ret.src = 1 /\ ret.dst = 4
    /\ Len(ret.primary) = 3
    /\ TotalWeight(adj, ret.primary) = 2

\* C7. second_shortest_path leaves the topology as it found it: the node
\* set, every neighbour set and every link weight are the same after the
\* call as before it.
C7_SearchRestoresTopology ==
    [][last'.op = "Topology.second_shortest_path" =>
          /\ DOMAIN adj' = DOMAIN adj
          /\ \A u \in DOMAIN adj :
                /\ DOMAIN adj'[u] = DOMAIN adj[u]
                /\ \A v \in DOMAIN adj[u] : adj'[u][v] = adj[u][v]]_vars

\* C7 witness: a search has returned a path after removing and restoring
\* the links of a primary path of two or more links, one of them of a
\* weight other than add_link's default.
C7_Witness ==
    /\ last.op = "Topology.second_shortest_path"
    /\ Len(ret.primary) >= 3
    /\ ret.second # NoPath
    /\ \E h \in Hops(ret.primary) : Linked(adj, h[1], h[2]) /\ adj[h[1]][h[2]] # 1

\* The paths the per-edge trials of second_shortest_path find on topology a:
\* for each link of primary, the shortest path with that one link removed.
Trials(a, src, dst, primary) ==
    { shortest_path(Topology_remove_link(a, h[1], h[2]), src, dst) : h \in Hops(primary) }
        \ {NoPath}

\* C8. Alternate-path result: second_shortest_path returns absent exactly
\* when no trial finds a path; a path it returns differs from primary, is a
\* src-to-dst path of the restored topology, and weighs the minimum over the
\* paths the trials found.
C8_AlternateResult ==
    [][last'.op = "Topology.second_shortest_path" =>
          LET t == Trials(adj, ret'.src, ret'.dst, ret'.primary)
              second == ret'.second
          IN  /\ second = NoPath <=> t = {}
              /\ second # NoPath =>
                    /\ second # ret'.primary
                    /\ IsPath(adj', second, ret'.src, ret'.dst)
                    /\ second \in t
                    /\ \A q \in t : TotalWeight(adj, second) <= TotalWeight(adj, q)]_vars

\* C8 witness: a search whose trials found two paths of different weight
\* has returned one.
C8_Witness ==
    /\ last.op = "Topology.second_shortest_path"
    /\ ret.second # NoPath
    /\ \E p, q \in Trials(adj, ret.src, ret.dst, ret.primary) :
          TotalWeight(adj, p) # TotalWeight(adj, q)

\* C9. Every switch's flow table holds at most one entry per destination,
\* whatever the priorities of the entries installed for it.
C9_OneEntryPerDestination ==
    \A u \in DOMAIN switches : \A i, j \in 1..Len(switches[u]) :
        switches[u][i].dst = switches[u][j].dst => i = j

\* C9 witness: the last recompute installed, on one switch and for one
\* destination, an entry of a higher priority and then one of a lower.
C9_Witness ==
    /\ ~err
    /\ \E i, j \in 1..Len(installs) :
          LET mi == Intent(active_flows, installs[i].fid)
              mj == Intent(active_flows, installs[j].fid)
          IN  /\ i < j
              /\ mi.dst = mj.dst
              /\ mi.priority > mj.priority
              /\ \E hi \in Hops(installs[i].path), hj \in Hops(installs[j].path) :
                    hi[1] = hj[1]

\* The load-balanced _install calls of a recompute trace for one (src, dst).
Balanced(trace, flows, key) ==
    { i \in 1..Len(trace) :
        LET m == Intent(flows, trace[i].fid)
        IN  LoadBalanced(m) /\ << m.src, m.dst >> = key }

\* C10. Load-balance parity on a shared counter: each install decision for a
\* non-critical intent with a backup takes the primary iff the counter of
\* its (src,dst) is even at that moment, else the backup, and then adds one
\* to the counter; the counter is shared by the intents of one (src,dst), so
\* two of them that follow each other in one recompute are given opposite
\* paths.
C10_SharedCounterParity ==
    [][( /\ last'.op \in {"inject_flow", "remove_link", "recompute_flows"}
         /\ last'.out # "no path" )
       => \A src, dst \in Nodes :
            LET key == << src, dst >>
                b == Balanced(installs', active_flows', key)
                At(i) == Get0(lb_counters, key) + Cardinality({ j \in b : j < i })
            IN  /\ \A i \in b :
                      installs'[i].path =
                          IF At(i) % 2 = 0
                          THEN Intent(active_flows', installs'[i].fid).primary
                          ELSE Intent(active_flows', installs'[i].fid).backup
                /\ Get0(lb_counters', key) = Get0(lb_counters, key) + Cardinality(b)
                /\ \A i, j \in b :
                      (i < j /\ ~ \E k \in b : i < k /\ k < j) =>
                          ( installs'[i].path = Intent(active_flows', installs'[i].fid).primary
                            <=> installs'[j].path = Intent(active_flows', installs'[j].fid).backup )]_vars

\* C10 witness: one recompute has installed two load-balanced intents of
\* distinct ids and one (src,dst), and ended without an error.
C10_Witness ==
    /\ ~err
    /\ \E i, j \in 1..Len(installs) :
          LET mi == Intent(active_flows, installs[i].fid)
              mj == Intent(active_flows, installs[j].fid)
          IN  /\ i < j
              /\ LoadBalanced(mi) /\ LoadBalanced(mj)
              /\ mi.src = mj.src /\ mi.dst = mj.dst
              /\ installs[i].path # installs[j].path

\* The place of the intent stored under fid in the registry's insertion order.
Position(flows, fid) == CHOOSE i \in 1..Len(flows) : flows[i].fid = fid

\* The _install calls of a recompute trace that wrote an entry for
\* destination d on switch u: the chosen path of an intent to d leaves u.
Writers(trace, flows, u, d) ==
    { i \in 1..Len(trace) :
        /\ Intent(flows, trace[i].fid).dst = d
        /\ \E h \in Hops(trace[i].path) : h[1] = u }

\* The node that follows u on path p.
Successor(p, u) == p[(CHOOSE i \in 1..(Len(p) - 1) : p[i] = u) + 1]

\* The greatest member of a non-empty set of integers.
Max(S) == CHOOSE x \in S : \A y \in S : y <= x

\* C11. recompute_flows processes every intent once, in descending priority
\* and, among equal priorities, in registry insertion order; after a
\* completed recompute the entry of switch u for destination d is the one
\* (next hop and priority) of the last-processed intent to d whose chosen
\* path leaves u, and u has no entry for d when there is no such intent. So
\* a lower-priority intent overwrites the entry of a higher-priority one.
C11_LastProcessedWins ==
    JustRecomputed =>
        /\ Len(installs) = Len(active_flows)
        /\ \A i, j \in 1..Len(installs) :
              i < j =>
                LET mi == Intent(active_flows, installs[i].fid)
                    mj == Intent(active_flows, installs[j].fid)
                IN  /\ mi.priority >= mj.priority
                    /\ mi.priority = mj.priority =>
                          Position(active_flows, mi.fid) < Position(active_flows, mj.fid)
        /\ \A u \in DOMAIN switches : \A d \in Nodes :
              LET w == Writers(installs, active_flows, u, d)
                  entries == { k \in 1..Len(switches[u]) : switches[u][k].dst = d }
              IN  IF w = {} THEN entries = {}
                  ELSE /\ entries # {}
                       /\ \A k \in entries :
                             /\ switches[u][k].next_hop =
                                    Successor(installs[Max(w)].path, u)
                             /\ switches[u][k].priority =
                                    Intent(active_flows, installs[Max(w)].fid).priority

\* C11 witness: a completed recompute installed, on one switch and for one
\* destination, the entry of a higher-priority intent and then, over another
\* next hop, that of a lower-priority intent, and the table holds the latter.
C11_Witness ==
    /\ JustRecomputed
    /\ \E u \in DOMAIN switches : \E d \in Nodes :
          \E i, j \in Writers(installs, active_flows, u, d) :
              LET mi == Intent(active_flows, installs[i].fid)
                  mj == Intent(active_flows, installs[j].fid)
              IN  /\ i < j
                  /\ mi.priority > mj.priority
                  /\ Successor(installs[i].path, u) # Successor(installs[j].path, u)
                  /\ HasEntry(switches, u, d, Successor(installs[j].path, u))
                  /\ ~HasEntry(switches, u, d, Successor(installs[i].path, u))

\* C12. In every state reached without an error, the utilisation counter of
\* every directed link (u, v) equals the number of active intents whose
\* installed path (the one the last recompute chose) contains the hop (u, v).
C12_UtilizationCountsFlows ==
    ~err =>
        \A k \in DOMAIN link_util :
            link_util[k] =
                Cardinality({ i \in 1..Len(installs) : k \in Hops(installs[i].path) })

\* C13. add_node(n) for a node n that already exists leaves the controller
\* as it was: the neighbour mappings, the flow tables, the intent registry
\* and both counter maps.
C13_AddNodeIdempotent ==
    [][\A n \in Nodes :
          ( /\ last'.op = "add_node"
            /\ n \in DOMAIN adj
            /\ n \in DOMAIN switches
            /\ add_node(n) )
          => /\ adj' = adj
             /\ switches' = switches
             /\ active_flows' = active_flows
             /\ lb_counters' = lb_counters
             /\ link_util' = link_util]_vars

\* The registered intents of one (src, dst) that satisfy P.
Sharing(flows, key, P(_)) ==
    { i \in 1..Len(flows) :
        << flows[i].src, flows[i].dst >> = key /\ P(flows[i]) }

\* m is not a critical intent.
NonCritical(m) == ~m.critical

\* C14 as stated. Over one completed recompute the load-balance counter of
\* every (src, dst) grows by exactly the number of registered non-critical
\* intents of that (src, dst).
C14_CountsNonCritical ==
    [][( /\ last'.op \in {"inject_flow", "remove_link", "recompute_flows"}
         /\ last'.out = "ok" )
       => \A src, dst \in Nodes :
            Get0(lb_counters', << src, dst >>) =
                Get0(lb_counters, << src, dst >>)
                + Cardinality(Sharing(active_flows', << src, dst >>, NonCritical))]_vars

\* C14, amended. Over one completed recompute the load-balance counter of
\* every (src, dst) grows by exactly the number of registered non-critical
\* intents of that (src, dst) that have a backup; a recompute ended by an
\* error has added at most that many; critical intents and intents without
\* a backup never change it; a call that does not recompute leaves every
\* counter as it was; and no call lowers a counter or removes one.
C14_CountsLoadBalanced ==
    [][\A src, dst \in Nodes :
          LET key == << src, dst >>
              n == Cardinality(Sharing(active_flows', key, LoadBalanced))
              recomputes == /\ last'.op \in {"inject_flow", "remove_link", "recompute_flows"}
                            /\ last'.out # "no path"
          IN  /\ key \in DOMAIN lb_counters => key \in DOMAIN lb_counters'
              /\ Get0(lb_counters', key) >= Get0(lb_counters, key)
              /\ Get0(lb_counters', key) <= Get0(lb_counters, key) + n
              /\ (recomputes /\ last'.out = "ok") =>
                     Get0(lb_counters', key) = Get0(lb_counters, key) + n
              /\ ~recomputes => lb_counters' = lb_counters]_vars

\* C14 witness: a completed recompute has advanced the counter of a
\* load-balanced intent for at least the second time while the registry also
\* holds an intent that is critical or has no backup.
C14_Witness ==
    /\ JustRecomputed
    /\ \E i, j \in 1..Len(active_flows) :
          /\ LoadBalanced(active_flows[i])
          /\ Get0(lb_counters, << active_flows[i].src, active_flows[i].dst >>) >= 2
          /\ ~LoadBalanced(active_flows[j])

\* Path p crosses a pair of nodes that topology a does not link.
Stale(a, p) == \E h \in Hops(p) : ~Linked(a, h[1], h[2])

\* C15. add_node, add_link, remove_link and recompute_flows leave every
\* registered intent's record (src, dst, priority, critical flag, primary
\* and backup path) as it was; a record changes only in an inject_flow of
\* its own id that found a path.
C15_StoredPathsFrozen ==
    [][\A i \in 1..Len(active_flows) :
          LET m == active_flows[i]
          IN  ( \/ last'.op # "inject_flow"
                \/ last'.fid # m.fid
                \/ last'.out = "no path" )
              => /\ \E j \in 1..Len(active_flows') : active_flows'[j] = m
                 /\ \A j \in 1..Len(active_flows') :
                       active_flows'[j].fid = m.fid => active_flows'[j] = m]_vars

\* C15 witness: remove_link has run to its end and a registered intent
\* still holds a path over the removed link.
C15_Witness ==
    /\ last = Call("remove_link", None, "ok")
    /\ \E i \in 1..Len(active_flows) :
          \/ Stale(adj, active_flows[i].primary)
          \/ Stale(adj, active_flows[i].backup)

\* The flow ids of a registry.
Registered(flows) == { flows[i].fid : i \in 1..Len(flows) }

\* C16. No call removes an intent: an id once registered stays registered.
\* The registry holds one intent per id. After an inject_flow(fid, ...) that
\* found a path the intent under fid has, as primary, the shortest path and,
\* as backup, the alternate path of its src and dst on the topology of that
\* call, whether or not fid was registered before.
C16_RegistryLifetime ==
    [][/\ Registered(active_flows) \subseteq Registered(active_flows')
       /\ \A i, j \in 1..Len(active_flows') :
             active_flows'[i].fid = active_flows'[j].fid => i = j
       /\ (last'.op = "inject_flow" /\ last'.out # "no path") =>
             /\ last'.fid \in Registered(active_flows')
             /\ LET m == Intent(active_flows', last'.fid)
                IN  /\ m.primary = shortest_path(adj, m.src, m.dst)
                    /\ m.primary # NoPath
                    /\ m.backup =
                           second_shortest_path(adj, m.src, m.dst, m.primary).second
                    /\ \/ m.backup = NoPath
                       \/ /\ m.backup \in Trials(adj, m.src, m.dst, m.primary)
                          /\ \A q \in Trials(adj, m.src, m.dst, m.primary) :
                                TotalWeight(adj, m.backup) <= TotalWeight(adj, q)]_vars

\* C16 witness: an inject_flow that found a path has replaced the record of
\* its id. The registry holds one intent, and a load-balance counter exists
\* for another (src, dst) than this intent's: that of the record replaced.
C16_Witness ==
    /\ last.op = "inject_flow" /\ last.out = "ok"
    /\ Len(active_flows) = 1
    /\ \E key \in DOMAIN lb_counters :
          key # << active_flows[1].src, active_flows[1].dst >>

\* C17. Whenever _install has routed a critical intent over its backup, the
\* reachability probe shortest_path(src, dst) fails on the topology of that
\* recompute and the backup crosses at least one pair of nodes that is not a
\* link of it: the critical branch never installs a backup that is a path
\* of the current topology.
C17_CriticalBackupIsStale ==
    ( /\ last.op \in {"inject_flow", "remove_link", "recompute_flows"}
      /\ last.out # "no path" )
    => \A i \in 1..Len(installs) :
          LET m == Intent(active_flows, installs[i].fid)
          IN  (m.critical /\ m.backup # NoPath /\ installs[i].path = m.backup)
              => /\ shortest_path(adj, m.src, m.dst) = NoPath
                 /\ Stale(adj, m.backup)
                 /\ ~IsPath(adj, m.backup, m.src, m.dst)

\* C17 witness: a recompute has routed a critical intent over its backup.
C17_Witness ==
    /\ last.op \in {"inject_flow", "remove_link", "recompute_flows"}
    /\ last.out # "no path"
    /\ \E i \in 1..Len(installs) :
          LET m == Intent(active_flows, installs[i].fid)
          IN  m.critical /\ m.backup # NoPath /\ installs[i].path = m.backup

\* C18. Every node of the topology has a Switch in the controller, a node
\* that add_link created included.
C18_EveryNodeHasSwitch == DOMAIN adj \subseteq DOMAIN switches

\* C19. In every state reached by calls that all ended without an error,
\* every flow entry of every switch u points over an existing link: its next
\* hop is a neighbour of u in the topology.
C19_EntriesOverLinks ==
    ~err =>
        \A u \in DOMAIN switches : \A k \in 1..Len(switches[u]) :
            Linked(adj, u, switches[u][k].next_hop)

\* C19 witness: remove_link has ended without an error, a registered intent
\* still stores a path over the removed link, and the tables hold entries.
C19_Witness ==
    /\ ~err
    /\ last.op = "remove_link"
    /\ \E u \in DOMAIN switches : switches[u] # << >>
    /\ \E i \in 1..Len(active_flows) :
          \E h \in Hops(active_flows[i].primary) \cup Hops(active_flows[i].backup) :
              ~Linked(adj, h[1], h[2])

\* Switch u holds an entry for destination d.
HoldsEntry(sw, u, d) ==
    /\ u \in DOMAIN sw
    /\ \E k \in 1..Len(sw[u]) : sw[u][k].dst = d

\* The next hop of switch u's entry for destination d.
NextHop(sw, u, d) ==
    sw[u][CHOOSE k \in 1..Len(sw[u]) : sw[u][k].dst = d].next_hop

\* Forwarding by the entries for d from u on reaches d, through switches that
\* hold an entry for d and without coming to a node of seen or to a node twice.
RECURSIVE Delivers(_, _, _, _)
Delivers(sw, u, d, seen) ==
    IF u = d THEN TRUE
    ELSE IF u \in seen \/ ~HoldsEntry(sw, u, d) THEN FALSE
    ELSE Delivers(sw, NextHop(sw, u, d), d, seen \cup {u})

\* C20. After a recompute that ended without an error, for every destination
\* d and every switch u that holds an entry for d, following the next hops
\* of the entries for d from u reaches d without visiting a node twice; d
\* itself holds no entry for d.
C20_LoopFreeDelivery ==
    JustRecomputed =>
        \A d \in Nodes : \A u \in DOMAIN switches :
            HoldsEntry(switches, u, d) =>
                /\ u # d
                /\ Delivers(switches, u, d, {})

\* C20 witness: in a completed recompute two intents to one destination were
\* installed over different paths, and on two switches the later one has
\* replaced the entry of the earlier one by an entry with another next hop.
C20_Witness ==
    /\ JustRecomputed
    /\ \E d \in Nodes : \E u, v \in DOMAIN switches :
          /\ u # v
          /\ \E i, j \in Writers(installs, active_flows, u, d)
                           \cap Writers(installs, active_flows, v, d) :
                /\ i < j
                /\ Successor(installs[i].path, u) # Successor(installs[j].path, u)
                /\ Successor(installs[i].path, v) # Successor(installs[j].path, v)
                /\ NextHop(switches, u, d) = Successor(installs[j].path, u)
                /\ NextHop(switches, v, d) = Successor(installs[j].path, v)

====
